---- MODULE Spec2Model ----
(***************************************************************************)
(* Decode pipeline of the invoice QR scanner: the upload / URL handlers,   *)
(* the whole-image attempt, the recursive quadrant search and the          *)
(* multi-page loop, as state machines over one request at a time.          *)
(*                                                                         *)
(* The external capabilities (fetch, pdf.js rendering, canvas.toBlob,      *)
(* preprocessImage, Html5Qrcode.scanFile) are inputs: each step draws the  *)
(* capability's outcome from the finite set of outcomes it can produce.    *)
(***************************************************************************)
EXTENDS Integers, Sequences, FiniteSets, TLC

VARIABLES
  handler,       \* which handler serves the current request
  pc,            \* the await the handler is suspended at
  isProcessing,  \* React state isProcessing
  scanResult,    \* React state scanResult
  toasts,        \* toast.success / toast.error calls of this request, in order
  canvas,        \* <<width, height>> of the rendered canvas
  stack,         \* call frames of recursiveSegmentScan, outermost first
  attempts,      \* scan attempts of this request, in call order
  events,        \* what happened in this request (faults, failed acquisition, ...)
  segment,       \* segmentAndScanImage: index of the loop over `segments`
  pageNum,       \* convertPDFToImage: loop variable of the page loop
  totalPages,    \* convertPDFToImage: pdf.numPages
  created,       \* Html5Qrcode handles constructed in this request
  cleared,       \* clear() calls made in this request
  inFlight,      \* scanFile calls made and not yet settled
  enh,           \* the enhancer: its pixel buffer, last stage and result promise
  comp           \* the QRScanner component: its mount state and scanner instances

vars == <<handler, pc, isProcessing, scanResult, toasts, canvas, stack,
          attempts, events, segment, pageNum, totalPages, created, cleared,
          inFlight, enh, comp>>

\* the state of the request handlers
handlerVars == <<handler, pc, isProcessing, scanResult, toasts, canvas, stack,
                 attempts, events, segment, pageNum, totalPages, created,
                 cleared, inFlight>>

----------------------------------------------------------------------------
(* Bounds and program constants *)

\* largest page count of a document
MaxPages == 2

\* recursiveSegmentScan: `width < 100 || height < 100`
MinSegmentSize == 100

\* recursiveSegmentScan: `depth > 3`
MaxDepth == 3

\* sizes of the rendered canvas (width, height)
Dims == { <<99, 120>>, <<250, 401>>, <<400, 400>>, <<800, 799>>, <<800, 800>>,
          <<1601, 1600>> }

\* JavaScript null
NULL == "<null>"

\* payloads the decoder can resolve with
Payloads == { "A", "B" }

\* what html5QrCode.scanFile can settle with: a payload, the empty string,
\* an Error whose message has "No MultiFormat Readers", another Error, or a
\* rejection value that is not an Error (a string)
DecodeOutcomes == Payloads \cup { "", "noReaders", "fault", "nonError" }

\* one scan attempt is canvas.toBlob, then preprocessImage, then scanFile:
\* toBlob may yield null, preprocessImage may reject or never settle
AttemptOutcomes == DecodeOutcomes \cup { "blobNull", "enhanceFail", "enhanceHang" }

\* `if (result)`: JavaScript truthiness of a string | null
Truthy(v) == v # NULL /\ v # ""

Handlers == { "PdfUpload", "UrlSubmit", "SegUpload", "PagesUpload",
              "QrUpload", "UrlSimple" }

----------------------------------------------------------------------------
(* recursiveSegmentScan *)

\* StopRecursion with the depth test off by one
StopRecursion_Deeper(width, height, depth) ==
  width < MinSegmentSize \/ height < MinSegmentSize \/ depth > MaxDepth + 1

\* the stop condition after a failed scan of the frame's own region
StopRecursion(width, height, depth) ==
  width < MinSegmentSize \/ height < MinSegmentSize \/ depth > MaxDepth

\* Segments with the top-right and the bottom-left segment exchanged
Segments_Swapped(x, y, width, height) ==
  LET halfWidth  == width \div 2
      halfHeight == height \div 2
  IN << [x |-> x,             y |-> y,              w |-> halfWidth, h |-> halfHeight],
        [x |-> x,             y |-> y + halfHeight, w |-> halfWidth, h |-> halfHeight],
        [x |-> x + halfWidth, y |-> y,              w |-> halfWidth, h |-> halfHeight],
        [x |-> x + halfWidth, y |-> y + halfHeight, w |-> halfWidth, h |-> halfHeight] >>

\* Segments with the second half starting one pixel late
Segments_Late(x, y, width, height) ==
  LET halfWidth  == width \div 2
      halfHeight == height \div 2
  IN << [x |-> x,                 y |-> y,                  w |-> halfWidth, h |-> halfHeight],
        [x |-> x + halfWidth + 1, y |-> y,                  w |-> halfWidth, h |-> halfHeight],
        [x |-> x,                 y |-> y + halfHeight + 1, w |-> halfWidth, h |-> halfHeight],
        [x |-> x + halfWidth + 1, y |-> y + halfHeight + 1, w |-> halfWidth, h |-> halfHeight] >>

\* the four sub-segments, in the order of the `segments` array
Segments(x, y, width, height) ==
  LET halfWidth  == width \div 2
      halfHeight == height \div 2
  IN << [x |-> x,             y |-> y,              w |-> halfWidth, h |-> halfHeight],
        [x |-> x + halfWidth, y |-> y,              w |-> halfWidth, h |-> halfHeight],
        [x |-> x,             y |-> y + halfHeight, w |-> halfWidth, h |-> halfHeight],
        [x |-> x + halfWidth, y |-> y + halfHeight, w |-> halfWidth, h |-> halfHeight] >>

\* a call frame: its arguments and the index i of the sub-segment whose
\* recursive call is in progress (0 while the frame's own scanSegment runs)
Frame(x, y, width, height, depth) ==
  [x |-> x, y |-> y, width |-> width, height |-> height, depth |-> depth, i |-> 0]

\* the frame calls recursiveSegmentScan on its k-th sub-segment
CallSub(st, k) ==
  LET f == st[Len(st)]
      s == Segments(f.x, f.y, f.width, f.height)[k]
  IN  [st EXCEPT ![Len(st)].i = k] \o << Frame(s.x, s.y, s.w, s.h, f.depth + 1) >>

\* the innermost call of st has returned null to its caller: the caller's
\* for-loop goes on with the next sub-segment, or returns null itself
RECURSIVE ReturnNull(_)
ReturnNull(st) ==
  IF Len(st) = 0 THEN << >>
  ELSE IF st[Len(st)].i < 4 THEN CallSub(st, st[Len(st)].i + 1)
  ELSE ReturnNull(SubSeq(st, 1, Len(st) - 1))

\* scanSegment of the innermost frame returned a falsy result
AfterFail(st) ==
  LET f == st[Len(st)]
  IN  IF StopRecursion(f.width, f.height, f.depth)
      THEN ReturnNull(SubSeq(st, 1, Len(st) - 1))
      ELSE CallSub(st, 1)

----------------------------------------------------------------------------
(* The enhancer: pixel buffers and the stages of preprocessImage *)

\* width and height of the pixel buffers, and the number of stages applied
\* to one buffer
ImgW == 3
ImgH == 3
MaxOps == 2

\* a buffer is the sequence of its pixels <<R, G, B>> in row order (the
\* alpha byte is not written by any stage); pixel (x, y) counts from 0
Px(x, y) == y * ImgW + x + 1
PxX(k) == (k - 1) % ImgW
PxY(k) == (k - 1) \div ImgW
Interior(k) ==
  /\ 1 <= PxX(k) /\ PxX(k) < ImgW - 1
  /\ 1 <= PxY(k) /\ PxY(k) < ImgH - 1

\* the value v stored as the three colour bytes of a pixel
Gray(v) == <<v, v, v>>

\* n / d rounded to the nearest integer, ties to even (n >= 0, d > 0)
RoundHalfEven(n, d) ==
  LET q == n \div d
      r == n % d
  IN  IF 2 * r < d THEN q
      ELSE IF 2 * r > d THEN q + 1
      ELSE IF q % 2 = 0 THEN q ELSE q + 1

\* a store that keeps the low eight bits, as a Uint8Array does
ToUint8Wrap(n, d) == (n \div d) % 256

\* a store of the number n / d into a Uint8ClampedArray element
ToUint8Clamp(n, d) ==
  IF n <= 0 THEN 0
  ELSE IF n >= 255 * d THEN 255
  ELSE RoundHalfEven(n, d)

\* 1000 times the luminance 0.299 R + 0.587 G + 0.114 B of pixel p
Luminance(p) == 299 * p[1] + 587 * p[2] + 114 * p[3]

\* the integer nearest to the square root of g
RoundSqrt(g) ==
  CHOOSE n \in 0..361 : /\ n = 0 \/ (2 * n - 1) * (2 * n - 1) <= 4 * g
                        /\ 4 * g < (2 * n + 1) * (2 * n + 1)

(* imageProcessing.ts *)

\* reduceNoise: 3 x 3 Gaussian kernel (1 2 1 / 2 4 2 / 1 2 1) / 16 on the
\* interior pixels, read from the copy tempData
reduceNoise(data) ==
  LET kernel == << <<1, 2, 1>>, <<2, 4, 2>>, <<1, 2, 1>> >>
      sum(k, c) ==
        LET term(ky, kx) ==
              data[Px(PxX(k) + kx, PxY(k) + ky)][c] * kernel[ky + 2][kx + 2]
        IN  term(-1, -1) + term(-1, 0) + term(-1, 1)
            + term(0, -1) + term(0, 0) + term(0, 1)
            + term(1, -1) + term(1, 0) + term(1, 1)
  IN  [k \in 1..Len(data) |->
         IF Interior(k)
         THEN << ToUint8Clamp(sum(k, 1), 16), ToUint8Clamp(sum(k, 2), 16),
                 ToUint8Clamp(sum(k, 3), 16) >>
         ELSE data[k]]

\* enhanceContrast: the byte stored for Math.pow(v / 255, 1.2) * 255,
\* v = 0 .. 255
GammaTable ==
  <<   0,   0,   1,   1,   2,   2,   3,   3,   4,   5,   5,   6,   7,   7,   8,   9,
         9,  10,  11,  11,  12,  13,  13,  14,  15,  16,  16,  17,  18,  19,  20,  20,
        21,  22,  23,  24,  24,  25,  26,  27,  28,  28,  29,  30,  31,  32,  33,  34,
        34,  35,  36,  37,  38,  39,  40,  40,  41,  42,  43,  44,  45,  46,  47,  48,
        49,  49,  50,  51,  52,  53,  54,  55,  56,  57,  58,  59,  60,  61,  62,  62,
        63,  64,  65,  66,  67,  68,  69,  70,  71,  72,  73,  74,  75,  76,  77,  78,
        79,  80,  81,  82,  83,  84,  85,  86,  87,  88,  89,  90,  91,  92,  93,  94,
        95,  96,  97,  98,  99, 100, 101, 102, 103, 104, 105, 106, 107, 108, 109, 110,
       112, 113, 114, 115, 116, 117, 118, 119, 120, 121, 122, 123, 124, 125, 126, 127,
       128, 130, 131, 132, 133, 134, 135, 136, 137, 138, 139, 140, 141, 142, 144, 145,
       146, 147, 148, 149, 150, 151, 152, 153, 155, 156, 157, 158, 159, 160, 161, 162,
       163, 165, 166, 167, 168, 169, 170, 171, 172, 173, 175, 176, 177, 178, 179, 180,
       181, 183, 184, 185, 186, 187, 188, 189, 191, 192, 193, 194, 195, 196, 197, 199,
       200, 201, 202, 203, 204, 205, 207, 208, 209, 210, 211, 212, 214, 215, 216, 217,
       218, 219, 221, 222, 223, 224, 225, 226, 228, 229, 230, 231, 232, 234, 235, 236,
       237, 238, 239, 241, 242, 243, 244, 245, 247, 248, 249, 250, 251, 253, 254, 255 >>

enhanceContrast(data) ==
  [k \in 1..Len(data) |->
     << GammaTable[data[k][1] + 1], GammaTable[data[k][2] + 1],
        GammaTable[data[k][3] + 1] >>]

\* applyEdgeDetection: Sobel gradients of the red channel of the copy
\* tempData, the magnitude capped at 255 and stored in R, G and B
applyEdgeDetection(data) ==
  LET red(k, kx, ky) == data[Px(PxX(k) + kx, PxY(k) + ky)][1]
      gradX(k) == - red(k, -1, -1) + red(k, 1, -1)
                  - 2 * red(k, -1, 0) + 2 * red(k, 1, 0)
                  - red(k, -1, 1) + red(k, 1, 1)
      gradY(k) == - red(k, -1, -1) - 2 * red(k, 0, -1) - red(k, 1, -1)
                  + red(k, -1, 1) + 2 * red(k, 0, 1) + red(k, 1, 1)
      magnitude2(k) == gradX(k) * gradX(k) + gradY(k) * gradY(k)
      stored(k) == IF magnitude2(k) > 255 * 255 THEN ToUint8Clamp(255, 1)
                   ELSE ToUint8Clamp(RoundSqrt(magnitude2(k)), 1)
  IN  [k \in 1..Len(data) |->
         IF Interior(k) THEN Gray(stored(k)) ELSE data[k]]

\* adaptiveThreshold: the fixed threshold 160 on the luminance
adaptiveThreshold(data) ==
  LET threshold == 160
  IN  [k \in 1..Len(data) |->
         Gray(ToUint8Clamp(IF Luminance(data[k]) > threshold * 1000 THEN 255 ELSE 0, 1))]

(* part_006 *)

\* applyConvolution with the sharpen kernel (0 -1 0 / -1 5 -1 / 0 -1 0):
\* every colour byte of an interior pixel, read from pixels and stored
\* into the Uint8ClampedArray output
applyConvolution(pixels) ==
  LET at(k, kx, ky, c) == pixels[Px(PxX(k) + kx, PxY(k) + ky)][c]
      sum(k, c) == 5 * at(k, 0, 0, c) - at(k, 0, -1, c) - at(k, -1, 0, c)
                   - at(k, 1, 0, c) - at(k, 0, 1, c)
  IN  [k \in 1..Len(pixels) |->
         IF Interior(k)
         THEN << ToUint8Clamp(sum(k, 1), 1), ToUint8Clamp(sum(k, 2), 1),
                 ToUint8Clamp(sum(k, 3), 1) >>
         ELSE pixels[k]]

\* applyAdaptiveThreshold, first loop: every pixel becomes (R + G + B) / 3
Average(pixels) ==
  [k \in 1..Len(pixels) |->
     Gray(ToUint8Clamp(pixels[k][1] + pixels[k][2] + pixels[k][3], 3))]

\* applyAdaptiveThreshold, second loop from pixel k on: the local mean of
\* the blockSize x blockSize neighbourhood (blockSize = 11, clipped at the
\* border) is read from the buffer being written, value > mean - C with C = 2
RECURSIVE ThresholdFrom(_, _)
ThresholdFrom(k, pixels) ==
  IF k > Len(pixels) THEN pixels
  ELSE LET halfBlock == 11 \div 2
           near == { n \in 1..Len(pixels) :
                       /\ PxX(n) - PxX(k) \in (-halfBlock)..halfBlock
                       /\ PxY(n) - PxY(k) \in (-halfBlock)..halfBlock }
           RECURSIVE Sum(_)
           Sum(S) == IF S = {} THEN 0
                     ELSE LET n == CHOOSE m \in S : TRUE
                          IN  pixels[n][1] + Sum(S \ { n })
           count == Cardinality(near)
           value == IF pixels[k][1] * count > Sum(near) - 2 * count
                    THEN 255 ELSE 0
       IN  ThresholdFrom(k + 1, [pixels EXCEPT ![k] = Gray(ToUint8Clamp(value, 1))])

applyAdaptiveThreshold(pixels) == ThresholdFrom(1, Average(pixels))

(* part_001 *)

\* denoiseImage: every pixel becomes its luminance
denoiseImage(data) ==
  [k \in 1..Len(data) |-> Gray(ToUint8Clamp(Luminance(data[k]), 1000))]

\* adaptiveThresholding: threshold = luminance > constant ? 255 : 0 with
\* constant = 5, then 255 if luminance > threshold, else 0
adaptiveThresholding(data) ==
  LET constant == 5
      threshold(k) == IF Luminance(data[k]) > constant * 1000 THEN 255 ELSE 0
  IN  [k \in 1..Len(data) |->
         Gray(ToUint8Clamp(IF Luminance(data[k]) > threshold(k) * 1000
                           THEN 255 ELSE 0, 1))]

(* part_009 *)

\* the loop of preprocessImage, lines 105-111: avg = (R + G + B) / 3,
\* value = avg > 128 ? 255 : 0
averageThreshold(data) ==
  LET threshold == 128
  IN  [k \in 1..Len(data) |->
         Gray(ToUint8Clamp(IF data[k][1] + data[k][2] + data[k][3] > 3 * threshold
                           THEN 255 ELSE 0, 1))]

(* the rescale step of part_006, part_008 and part_009 *)

\* Math.round(a / b) for a >= 0, b > 0
MathRound(a, b) == (2 * a + b) \div (2 * b)

\* the new <<width, height>>: the larger dimension is cut to max and the
\* other is Math.round((other * max) / larger)
Rescale(width, height, max) ==
  IF width > height
  THEN IF width > max THEN << max, MathRound(height * max, width) >>
       ELSE << width, height >>
  ELSE IF height > max THEN << MathRound(width * max, height), max >>
       ELSE << width, height >>

\* MAX_WIDTH = MAX_HEIGHT = 2048 in part_006 and part_009, MAX_DIMENSION =
\* 2048 in part_008
MaxDimensionOf(variant) == 2048

\* Math.max
Max(a, b) == IF a >= b THEN a ELSE b

\* part_008: MAX_DIMENSION = 2048, MIN_DIMENSION = 256, padding = 10; the
\* size given to the canvas
CanvasSize_008(width, height) ==
  LET MAX_DIMENSION == 2048
      MIN_DIMENSION == 256
      padding == 10
      r == Rescale(width, height, MAX_DIMENSION)
  IN  << Max(r[1], MIN_DIMENSION) + padding * 2,
         Max(r[2], MIN_DIMENSION) + padding * 2 >>

\* the stages by name
ThresholdStages == { "adaptiveThreshold", "applyAdaptiveThreshold",
                     "adaptiveThresholding", "averageThreshold" }

Stages == ThresholdStages \cup { "reduceNoise", "enhanceContrast",
                                 "applyEdgeDetection", "applyConvolution",
                                 "denoiseImage" }

Stage(f, data) ==
  CASE f = "reduceNoise" -> reduceNoise(data)
    [] f = "enhanceContrast" -> enhanceContrast(data)
    [] f = "applyEdgeDetection" -> applyEdgeDetection(data)
    [] f = "adaptiveThreshold" -> adaptiveThreshold(data)
    [] f = "applyConvolution" -> applyConvolution(data)
    [] f = "applyAdaptiveThreshold" -> applyAdaptiveThreshold(data)
    [] f = "denoiseImage" -> denoiseImage(data)
    [] f = "adaptiveThresholding" -> adaptiveThresholding(data)
    [] f = "averageThreshold" -> averageThreshold(data)

\* the input buffers: a background colour with a figure in a second colour
Palette == { <<0, 0, 0>>, <<255, 255, 255>>, <<3, 3, 3>>, <<200, 30, 90>>,
             <<130, 128, 126>> }

Figures == { "none", "centre", "checker", "column", "row" }

InFigure(fig, k) ==
  CASE fig = "none" -> FALSE
    [] fig = "centre" -> PxX(k) = 1 /\ PxY(k) = 1
    [] fig = "checker" -> (PxX(k) + PxY(k)) % 2 = 0
    [] fig = "column" -> PxX(k) = 0
    [] fig = "row" -> PxY(k) = 0

Images ==
  { [k \in 1..(ImgW * ImgH) |-> IF InFigure(fig, k) THEN fg ELSE bg] :
      fig \in Figures, bg \in Palette, fg \in Palette }

\* the buffers a draw through a filter with grayscale(1) can yield
GrayImages == { img \in Images : \A k \in 1..Len(img) : img[k][1] = img[k][2]
                                                       /\ img[k][2] = img[k][3] }

\* <<img.width, img.height>> of the images loaded
ImgSizes == { <<300, 200>>, <<2000, 4096>>, <<5000, 1>> }

\* the QRScanner component before its first mount: no scanner in its state
\* (0 stands for null), no instance made, no deferred callback scheduled
CompIdle == [variant |-> "none", phase |-> "unmounted", mounts |-> 0,
             scanner |-> 0, cleanup |-> 0, timers |-> 0, listeners |-> 0,
             stale |-> 0, made |-> 0, live |-> {}, onSuccess |-> 0]

\* the enhancer at rest: no buffer, no stage applied, no promise
EnhIdle == [data |-> << >>, prev |-> << >>, stage |-> "none", n |-> 0,
            promise |-> "none", variant |-> "none", img |-> <<0, 0>>,
            size |-> <<0, 0>>]

----------------------------------------------------------------------------
\* the component after mounting: no request yet
HandlersInit ==
  /\ handler = "none"
  /\ pc = "idle"
  /\ isProcessing = FALSE
  /\ scanResult = NULL
  /\ toasts = << >>
  /\ canvas = <<0, 0>>
  /\ stack = << >>
  /\ attempts = << >>
  /\ events = {}
  /\ segment = 0
  /\ pageNum = 0
  /\ totalPages = 0
  /\ created = 0
  /\ cleared = 0
  /\ inFlight = 0

Init == HandlersInit /\ enh = EnhIdle /\ comp = CompIdle

----------------------------------------------------------------------------
(* helpers shared by the handlers *)

\* what scanSegment / scanFullImage return for an attempt's outcome: the
\* string scanFile resolved with, or null from the catch block
ScanReturn(o) == IF o \in Payloads \cup { "" } THEN o ELSE NULL

\* the outcomes after which the awaited promise never settles:
\* `if (b) resolve(b)` with b = null, and preprocessImage's toBlob callback
\* throwing instead of rejecting
Hangs(o) == o \in { "blobNull", "enhanceHang" }

\* what an attempt with outcome o adds to the request's events
EventsOf(o) ==
  (IF o \in DecodeOutcomes THEN { "decoded" } ELSE {})
  \cup (IF o \in { "fault", "enhanceFail", "blobNull", "enhanceHang" } THEN { o } ELSE {})

\* `await`: the handler is suspended until the scanFile promise it awaits
\* has settled, so it makes its next call only when none is outstanding
CanCall_NoAwait(n) == n <= 1

CanCall(n) == n = 0

\* the awaits at which the next step of the handler is a decode attempt
ScanPoints == { "scanFull", "search", "segments", "pages", "rescan", "scanFile" }

\* html5QrCode.scanFile(...) is called; its promise is pending
CallScanFile ==
  /\ pc \in ScanPoints
  /\ CanCall(inFlight)
  /\ inFlight' = inFlight + 1
  /\ UNCHANGED <<handler, pc, isProcessing, scanResult, toasts, canvas, stack,
                 attempts, events, segment, pageNum, totalPages, created, cleared,
                 enh, comp>>

\* the attempt ends with outcome o: the pending scanFile promise settles,
\* or the attempt fails before scanFile is called
Settle(o) ==
  IF o \in DecodeOutcomes
  THEN inFlight >= 1 /\ inFlight' = inFlight - 1
  ELSE inFlight = 0 /\ UNCHANGED inFlight

\* the record of one scan attempt: who made it, on which region (x, y,
\* width, height in units of 1/den pixel), at which depth, with what result
Attempt(via, x, y, width, height, depth, den, o) ==
  [via |-> via, x |-> x, y |-> y, width |-> width, height |-> height,
   depth |-> depth, den |-> den,
   out |-> IF Truthy(ScanReturn(o)) THEN o ELSE "fail"]

\* SearchStep giving up after the first region
SearchStep_GiveUp(st, r) == << >>

\* SearchStep without the early return on a result
SearchStep_NoReturn(st, r) == AfterFail(st)

\* the stack after scanSegment of the innermost frame returned r:
\* `if (result) return result` unwinds every caller, else the search goes on
SearchStep(st, r) == IF Truthy(r) THEN << >> ELSE AfterFail(st)

----------------------------------------------------------------------------
(* handleFileUpload of the PDF scanners *)

StartUpload(h, mime) ==
  /\ pc = "idle" /\ ~isProcessing
  /\ h \in { "PdfUpload", "SegUpload", "PagesUpload" }
  /\ handler' = h
  /\ IF mime # "application/pdf"
     THEN /\ toasts' = Append(toasts, "notPdf")
          /\ pc' = "done"
          /\ UNCHANGED <<isProcessing, created>>
     ELSE /\ isProcessing' = TRUE
          /\ created' = IF h = "PagesUpload" THEN 0 ELSE 1
          /\ pc' = "convert"
          /\ UNCHANGED toasts
  /\ UNCHANGED <<scanResult, canvas, stack, attempts, events, segment,
                 pageNum, totalPages, cleared>>
  /\ UNCHANGED inFlight
  /\ UNCHANGED enh
  /\ UNCHANGED comp

\* convertPDFToImage of the single-page variants, awaited inside the inner try
ConvertPDF(ok, d) ==
  /\ pc = "convert" /\ handler \in { "PdfUpload", "SegUpload", "UrlSubmit" }
  /\ IF ok
     THEN /\ canvas' = d
          /\ pc' = IF handler = "SegUpload" THEN "segments" ELSE "scanFull"
          /\ segment' = IF handler = "SegUpload" THEN 1 ELSE segment
          /\ UNCHANGED <<isProcessing, toasts, events, cleared>>
     ELSE \* pdf.js rejects with an Error without "No MultiFormat Readers"
          /\ toasts' = Append(toasts, "failedProcess")
          /\ isProcessing' = FALSE
          /\ cleared' = cleared + 1
          /\ events' = events \cup { "acqFailed" }
          /\ pc' = "done"
          /\ UNCHANGED <<canvas, segment>>
  /\ UNCHANGED <<handler, scanResult, stack, attempts, pageNum, totalPages, created>>
  /\ UNCHANGED inFlight
  /\ UNCHANGED enh
  /\ UNCHANGED comp

\* scanFullImage and what the handler does with its result
ScanFullImage(o) ==
  /\ pc = "scanFull"
  /\ attempts' = Append(attempts,
        Attempt("scanFullImage", 0, 0, canvas[1], canvas[2], 0, 1, o))
  /\ events' = events \cup EventsOf(o)
  /\ IF Hangs(o)
     THEN /\ pc' = "hung"
          /\ UNCHANGED <<isProcessing, scanResult, toasts, stack, cleared>>
     ELSE IF Truthy(ScanReturn(o))
     THEN \* handleScanSuccess(fullImageResult); return; finally clear()
          /\ scanResult' = o
          /\ toasts' = Append(toasts, "success")
          /\ isProcessing' = FALSE
          /\ cleared' = cleared + 1
          /\ pc' = "done"
          /\ UNCHANGED stack
     ELSE /\ stack' = << Frame(0, 0, canvas[1], canvas[2], 0) >>
          /\ pc' = "search"
          /\ UNCHANGED <<isProcessing, scanResult, toasts, cleared>>
  /\ UNCHANGED <<handler, canvas, segment, pageNum, totalPages, created>>
  /\ Settle(o)
  /\ UNCHANGED enh
  /\ UNCHANGED comp

\* one scanSegment call of recursiveSegmentScan, and everything that runs
\* until the next scanSegment call or until the handler has finished
ScanSegment(o) ==
  /\ pc = "search" /\ stack # << >>
  /\ LET f == stack[Len(stack)]
         r == ScanReturn(o)
         st == SearchStep(stack, r)
     IN  /\ attempts' = Append(attempts,
               Attempt("scanSegment", f.x, f.y, f.width, f.height, f.depth, 1, o))
         /\ events' = events \cup EventsOf(o)
         /\ IF Hangs(o)
            THEN /\ pc' = "hung"
                 /\ UNCHANGED <<isProcessing, scanResult, toasts, stack, cleared>>
            ELSE IF st # << >>
            THEN /\ stack' = st
                 /\ UNCHANGED <<pc, isProcessing, scanResult, toasts, cleared>>
            ELSE /\ stack' = st
                 /\ pc' = "done"
                 /\ cleared' = cleared + 1
                 /\ IF Truthy(r)
                    THEN /\ scanResult' = r
                         /\ toasts' = Append(toasts, "success")
                         /\ isProcessing' = FALSE
                    ELSE /\ toasts' = Append(toasts, "noCodeFound")
                         /\ UNCHANGED <<isProcessing, scanResult>>
  /\ UNCHANGED <<handler, canvas, segment, pageNum, totalPages, created>>
  /\ Settle(o)
  /\ UNCHANGED enh
  /\ UNCHANGED comp

\* segmentAndScanImage: canvas.width / 2 and canvas.height / 2 are not
\* rounded, so the four segments are given in half pixels (den = 2), where
\* segmentWidth = canvas.width and segmentHeight = canvas.height
HalfSegments(width, height) ==
  LET segmentWidth  == width
      segmentHeight == height
  IN << [x |-> 0,            y |-> 0,             w |-> segmentWidth, h |-> segmentHeight],
        [x |-> segmentWidth, y |-> 0,             w |-> segmentWidth, h |-> segmentHeight],
        [x |-> 0,            y |-> segmentHeight, w |-> segmentWidth, h |-> segmentHeight],
        [x |-> segmentWidth, y |-> segmentHeight, w |-> segmentWidth, h |-> segmentHeight] >>

\* one iteration of the loop of segmentAndScanImage, and the handler's
\* continuation once the function has returned
SegmentScan(o) ==
  /\ pc = "segments"
  /\ LET s == HalfSegments(canvas[1], canvas[2])[segment]
         r == ScanReturn(o)
     IN  /\ attempts' = Append(attempts,
               Attempt("segmentAndScanImage", s.x, s.y, s.w, s.h, 1, 2, o))
         /\ events' = events \cup EventsOf(o)
         /\ IF Hangs(o)
            THEN /\ pc' = "hung"
                 /\ UNCHANGED <<isProcessing, scanResult, toasts, segment, cleared>>
            ELSE IF Truthy(r)
            THEN /\ scanResult' = r
                 /\ toasts' = Append(toasts, "success")
                 /\ isProcessing' = FALSE
                 /\ cleared' = cleared + 1
                 /\ pc' = "done"
                 /\ UNCHANGED segment
            ELSE IF segment < 4
            THEN /\ segment' = segment + 1
                 /\ UNCHANGED <<pc, isProcessing, scanResult, toasts, cleared>>
            ELSE /\ toasts' = Append(toasts, "noCodeFound")
                 /\ cleared' = cleared + 1
                 /\ pc' = "done"
                 /\ UNCHANGED <<isProcessing, scanResult, segment>>
  /\ UNCHANGED <<handler, canvas, stack, pageNum, totalPages, created>>
  /\ Settle(o)
  /\ UNCHANGED enh
  /\ UNCHANGED comp

----------------------------------------------------------------------------
(* the multi-page variant: convertPDFToImage with its page loop *)

\* getDocument: the document loads with n pages, or the promise rejects and
\* the outer catch of handleFileUpload reports it
ConvertPages(ok, n) ==
  /\ pc = "convert" /\ handler = "PagesUpload"
  /\ IF ok
     THEN /\ totalPages' = n
          /\ pageNum' = 1
          /\ created' = created + 1
          /\ pc' = "pages"
          /\ UNCHANGED <<isProcessing, toasts, events>>
     ELSE /\ toasts' = Append(toasts, "failedPdf")
          /\ isProcessing' = FALSE
          /\ events' = events \cup { "acqFailed" }
          /\ pc' = "done"
          /\ UNCHANGED <<totalPages, pageNum, created>>
  /\ UNCHANGED <<handler, scanResult, canvas, stack, attempts, segment, cleared>>
  /\ UNCHANGED inFlight
  /\ UNCHANGED enh
  /\ UNCHANGED comp

\* one iteration of the page loop: render the page, serialise the canvas,
\* scanFile on it; then the next page, the return of the canvas, or the throw
\* after the last page
ScanPage(rendered, d, o) ==
  /\ pc = "pages"
  /\ IF ~rendered
     THEN \* getPage / render rejects: out through both finally blocks
          /\ inFlight = 0 /\ UNCHANGED inFlight
          /\ toasts' = Append(toasts, "failedPdf")
          /\ isProcessing' = FALSE
          /\ events' = events \cup { "acqFailed" }
          /\ pc' = "done"
          /\ UNCHANGED <<canvas, attempts, pageNum, cleared>>
     ELSE /\ Settle(o)
          /\ canvas' = d
          /\ attempts' = Append(attempts,
                Attempt("convertPDFToImage", 0, 0, d[1], d[2], 0, 1, o))
          /\ events' = events \cup EventsOf(o)
                              \cup (IF o \in Payloads THEN { "pageHit" } ELSE {})
          /\ IF Hangs(o)
             THEN /\ pc' = "hung"
                  /\ UNCHANGED <<isProcessing, toasts, pageNum, cleared>>
             ELSE /\ cleared' = cleared + 1
                  /\ IF o \in Payloads
                     THEN \* qrCodeMessage.length > 0: return canvas
                          /\ pc' = "rescan"
                          /\ UNCHANGED <<isProcessing, toasts, pageNum>>
                     ELSE IF pageNum < totalPages
                     THEN /\ pageNum' = pageNum + 1
                          /\ UNCHANGED <<pc, isProcessing, toasts>>
                     ELSE \* throw new Error("No QR code found in any page")
                          /\ pageNum' = pageNum + 1
                          /\ toasts' = Append(toasts, "failedPdf")
                          /\ isProcessing' = FALSE
                          /\ pc' = "done"
  /\ UNCHANGED <<handler, scanResult, stack, segment, totalPages, created>>
  /\ UNCHANGED enh
  /\ UNCHANGED comp

\* handleFileUpload after convertPDFToImage returned the canvas: toBlob,
\* preprocessImage, a new Html5Qrcode and scanFile on the processed file
Rescan(o) ==
  /\ pc = "rescan"
  \* the canvas is the page just decoded: a payload read from it is that one
  /\ o \in Payloads => o = attempts[Len(attempts)].out
  /\ attempts' = Append(attempts,
        Attempt("handleFileUpload", 0, 0, canvas[1], canvas[2], 0, 1, o))
  /\ events' = events \cup EventsOf(o)
  /\ IF Hangs(o)
     THEN /\ pc' = "hung"
          /\ UNCHANGED <<isProcessing, scanResult, toasts, created, cleared>>
     ELSE /\ pc' = "done"
          /\ isProcessing' = FALSE
          /\ IF o = "enhanceFail"
             THEN \* preprocessImage rejects: the outer catch
                  /\ toasts' = Append(toasts, "failedPdf")
                  /\ UNCHANGED <<scanResult, created, cleared>>
             ELSE /\ created' = created + 1
                  /\ cleared' = cleared + 1
                  /\ IF o \in Payloads
                     THEN /\ scanResult' = o
                          /\ toasts' = Append(toasts, "success")
                     ELSE IF o = ""
                     THEN /\ toasts' = Append(toasts, "noCodeFound")
                          /\ UNCHANGED scanResult
                     ELSE /\ toasts' = Append(toasts, "scanFailed")
                          /\ UNCHANGED scanResult
  /\ UNCHANGED <<handler, canvas, stack, segment, pageNum, totalPages>>
  /\ Settle(o)
  /\ UNCHANGED enh
  /\ UNCHANGED comp

----------------------------------------------------------------------------
(* the URL handlers and the image upload of the general scanner *)

StartUrl(h, url) ==
  /\ pc = "idle" /\ ~isProcessing
  /\ h \in { "UrlSubmit", "UrlSimple" }
  /\ handler' = h
  /\ IF url = ""
     THEN /\ toasts' = Append(toasts, "enterUrl")
          /\ pc' = "done"
          /\ UNCHANGED <<isProcessing, scanResult>>
     ELSE /\ isProcessing' = TRUE
          /\ scanResult' = IF h = "UrlSubmit" THEN NULL ELSE scanResult
          /\ pc' = "fetch"
          /\ UNCHANGED toasts
  /\ UNCHANGED <<canvas, stack, attempts, events, segment, pageNum,
                 totalPages, created, cleared>>
  /\ UNCHANGED inFlight
  /\ UNCHANGED enh
  /\ UNCHANGED comp

\* await fetch(...): the promise rejects, or resolves with a response that
\* is not ok, or with a PDF or an image body
Fetch(o) ==
  /\ pc = "fetch"
  /\ IF o = "reject" \/ (o = "notOk" /\ handler = "UrlSubmit")
     THEN \* the outer catch
          /\ toasts' = Append(toasts, "fetchFailed")
          /\ isProcessing' = FALSE
          /\ events' = events \cup { "acqFailed" }
          /\ pc' = "done"
          /\ UNCHANGED created
     ELSE /\ created' = created + 1
          /\ events' = IF o = "notOk" THEN events \cup { "acqFailed" } ELSE events
          /\ pc' = IF handler = "UrlSimple" THEN "scanFile"
                   ELSE IF o = "okPdf" THEN "convert" ELSE "image"
          /\ UNCHANGED <<toasts, isProcessing>>
  /\ UNCHANGED <<handler, scanResult, canvas, stack, attempts, segment,
                 pageNum, totalPages, cleared>>
  /\ UNCHANGED inFlight
  /\ UNCHANGED enh
  /\ UNCHANGED comp

\* the image branch of handleUrlSubmit: getContext fails (an Error is
\* thrown), the image fires onerror (the promise rejects with the Event),
\* or it loads with size d
LoadImage(o, d) ==
  /\ pc = "image"
  /\ IF o = "onload"
     THEN /\ canvas' = d
          /\ pc' = "scanFull"
          /\ UNCHANGED <<toasts, isProcessing, events, cleared>>
     ELSE /\ toasts' = IF o = "noContext" THEN Append(toasts, "failedProcess")
                       ELSE toasts
          /\ isProcessing' = FALSE
          /\ cleared' = cleared + 1
          /\ events' = events \cup { "acqFailed" }
          /\ pc' = "done"
          /\ UNCHANGED canvas
  /\ UNCHANGED <<handler, scanResult, stack, attempts, segment, pageNum,
                 totalPages, created>>
  /\ UNCHANGED inFlight
  /\ UNCHANGED enh
  /\ UNCHANGED comp

StartQrUpload(mime) ==
  /\ pc = "idle" /\ ~isProcessing
  /\ handler' = "QrUpload"
  /\ created' = 1
  /\ IF mime = "application/pdf"
     THEN \* toast, setIsProcessing(false), return: the handle is not cleared
          /\ toasts' = Append(toasts, "pdfUnsupported")
          /\ pc' = "done"
          /\ UNCHANGED isProcessing
     ELSE /\ isProcessing' = TRUE
          /\ pc' = "scanFile"
          /\ UNCHANGED toasts
  /\ UNCHANGED <<scanResult, canvas, stack, attempts, events, segment,
                 pageNum, totalPages, cleared>>
  /\ UNCHANGED inFlight
  /\ UNCHANGED enh
  /\ UNCHANGED comp

\* the single scanFile call of QRScanner.handleFileUpload and of
\* URLInvoiceScanner.handleUrlSubmit, with its catch and finally
ScanFileOnce(o) ==
  /\ pc = "scanFile"
  /\ attempts' = Append(attempts, Attempt("scanFile", 0, 0, 0, 0, 0, 1, o))
  /\ events' = events \cup EventsOf(o)
  /\ isProcessing' = FALSE
  /\ cleared' = cleared + 1
  /\ pc' = "done"
  /\ IF o \in Payloads \cup { "" }
     THEN \* handleScanSuccess(decodedText), whatever the string
          /\ scanResult' = o
          /\ toasts' = Append(toasts, "success")
     ELSE /\ UNCHANGED scanResult
          /\ toasts' =
               IF o = "nonError" THEN toasts
               ELSE IF handler = "UrlSimple" THEN Append(toasts, "noCodeFound")
               ELSE IF o = "noReaders" THEN Append(toasts, "noReaders")
               ELSE Append(toasts, "failedProcess")
  /\ UNCHANGED <<handler, canvas, stack, segment, pageNum, totalPages, created>>
  /\ Settle(o)
  /\ UNCHANGED enh
  /\ UNCHANGED comp

\* the handler has returned; the user makes the next request
NewRequest ==
  /\ pc = "done"
  /\ pc' = "idle"
  /\ handler' = "none"
  /\ toasts' = << >>
  /\ canvas' = <<0, 0>>
  /\ stack' = << >>
  /\ attempts' = << >>
  /\ events' = {}
  /\ segment' = 0
  /\ pageNum' = 0
  /\ totalPages' = 0
  /\ created' = 0
  /\ cleared' = 0
  /\ UNCHANGED <<isProcessing, scanResult>>
  /\ UNCHANGED inFlight
  /\ UNCHANGED enh
  /\ UNCHANGED comp

----------------------------------------------------------------------------
MimeTypes == { "application/pdf", "image/png" }

Next ==
  \/ \E h \in Handlers, mime \in MimeTypes : StartUpload(h, mime)
  \/ \E h \in Handlers, url \in { "", "https://example.org/invoice" } : StartUrl(h, url)
  \/ \E mime \in MimeTypes : StartQrUpload(mime)
  \/ \E o \in { "reject", "notOk", "okPdf", "okImage" } : Fetch(o)
  \/ \E ok \in BOOLEAN, d \in Dims : ConvertPDF(ok, d)
  \/ \E o \in { "onload", "onerror", "noContext" }, d \in Dims : LoadImage(o, d)
  \/ \E o \in AttemptOutcomes : ScanFullImage(o)
  \/ \E o \in AttemptOutcomes : ScanSegment(o)
  \/ \E o \in AttemptOutcomes : SegmentScan(o)
  \/ \E ok \in BOOLEAN, n \in 1..MaxPages : ConvertPages(ok, n)
  \/ \E rendered \in BOOLEAN, d \in Dims, o \in DecodeOutcomes \cup { "blobNull" } :
        ScanPage(rendered, d, o)
  \/ \E o \in AttemptOutcomes : Rescan(o)
  \/ \E o \in DecodeOutcomes : ScanFileOnce(o)
  \/ CallScanFile
  \/ NewRequest

Spec == Init /\ [][Next]_vars

\* the scheduler runs every settled continuation: no enabled step waits forever
FairSpec == Spec /\ WF_vars(Next)

----------------------------------------------------------------------------
(* The enhancer on its own: stages applied to input buffers, and the two   *)
(* preprocessImage variants with the promise they return                   *)

\* a buffer arrives at the enhancer
EnhInit ==
  /\ HandlersInit /\ comp = CompIdle
  /\ \E img \in Images :
        enh = [EnhIdle EXCEPT !.data = img, !.prev = img]

\* one stage is applied to the buffer
ApplyStage(f) ==
  /\ enh.promise = "none" /\ enh.stage # "preprocessImage"
  /\ enh.n < MaxOps
  /\ enh' = [enh EXCEPT !.prev = enh.data, !.data = Stage(f, enh.data),
                        !.stage = f, !.n = enh.n + 1]
  /\ UNCHANGED <<handlerVars, comp>>

\* the promise of a preprocessImage call that rejects before it has
\* touched the buffer
Rejected(variant) ==
  [enh EXCEPT !.stage = "preprocessImage", !.variant = variant,
              !.promise = "rejected"]

\* preprocessImage of imageProcessing.ts: createImageBitmap may reject and
\* getContext may yield null (both reject the promise of the async
\* function); the canvas takes the size of the image; the four stages run;
\* toBlob calls back with a blob (resolve) or with null (the throw in the
\* callback leaves the promise unsettled)
PreprocessOutcomes == { "bitmapRejects", "noContext", "blob", "blobNull" }

PreprocessImage(o) ==
  /\ enh.promise = "none" /\ enh.n = 0
  /\ IF o \in { "bitmapRejects", "noContext" }
     THEN enh' = Rejected("imageProcessing")
     ELSE enh' = [data |-> adaptiveThreshold(applyEdgeDetection(
                             enhanceContrast(reduceNoise(enh.data)))),
                  prev |-> enh.data,
                  stage |-> "preprocessImage",
                  n |-> 4,
                  promise |-> IF o = "blob" THEN "resolved" ELSE "pending",
                  variant |-> "imageProcessing",
                  img |-> <<ImgW, ImgH>>,
                  size |-> <<ImgW, ImgH>>]
  /\ UNCHANGED <<handlerVars, comp>>

\* preprocessImage of part_006: convertPDFToImage may reject; a null
\* context, the image's onerror, a null temporary context and a null blob
\* each reject; the image of size d is rescaled; the sharpened buffer is
\* drawn through ctx.filter (with grayscale(1)), which yields the buffer
\* `drawn`, and applyAdaptiveThreshold runs on it. getImageData throws
\* inside the onload callback when the rescaled width or height is 0, which
\* leaves the promise unsettled
PreprocessOutcomes_006 == { "convertRejects", "noContext", "onerror",
                            "noTempContext", "blob", "blobNull" }

PreprocessImage_006(o, d, drawn) ==
  /\ enh.promise = "none" /\ enh.n = 0
  /\ LET size == Rescale(d[1], d[2], MaxDimensionOf("part_006"))
     IN  IF o \in { "convertRejects", "noContext", "onerror" }
         THEN enh' = Rejected("part_006")
         ELSE IF o = "noTempContext"
         THEN enh' = [Rejected("part_006") EXCEPT !.img = d, !.size = size]
         ELSE IF size[1] = 0 \/ size[2] = 0
         THEN enh' = [enh EXCEPT !.stage = "preprocessImage",
                                 !.variant = "part_006", !.promise = "pending",
                                 !.img = d, !.size = size]
         ELSE enh' = [data |-> applyAdaptiveThreshold(drawn),
                      prev |-> applyConvolution(enh.data),
                      stage |-> "preprocessImage",
                      n |-> 2,
                      promise |-> IF o = "blob" THEN "resolved" ELSE "rejected",
                      variant |-> "part_006",
                      img |-> d,
                      size |-> size]
  /\ UNCHANGED <<handlerVars, comp>>

\* preprocessImage of part_008 (first variant): the image of size d is
\* rescaled, raised to the minimum dimension and padded; it is drawn through
\* ctx.filter (with grayscale(1)) as the buffer `drawn`; a null context, the
\* image's onerror and a null blob each reject
PreprocessOutcomes_008 == { "noContext", "onerror", "blob", "blobNull" }

PreprocessImage_008(o, d, drawn) ==
  /\ enh.promise = "none" /\ enh.n = 0
  /\ IF o \in { "noContext", "onerror" }
     THEN enh' = Rejected("part_008")
     ELSE enh' = [data |-> drawn,
                  prev |-> enh.data,
                  stage |-> "preprocessImage",
                  n |-> 1,
                  promise |-> IF o = "blob" THEN "resolved" ELSE "rejected",
                  variant |-> "part_008",
                  img |-> d,
                  size |-> CanvasSize_008(d[1], d[2])]
  /\ UNCHANGED <<handlerVars, comp>>

\* preprocessImage of part_009: as part_006 without the sharpening; the
\* image is drawn through ctx.filter as the buffer `drawn` and the loop of
\* lines 105-111 thresholds it
PreprocessOutcomes_009 == { "convertRejects", "noContext", "onerror", "blob",
                            "blobNull" }

PreprocessImage_009(o, d, drawn) ==
  /\ enh.promise = "none" /\ enh.n = 0
  /\ LET size == Rescale(d[1], d[2], MaxDimensionOf("part_009"))
     IN  IF o \in { "convertRejects", "noContext", "onerror" }
         THEN enh' = Rejected("part_009")
         ELSE IF size[1] = 0 \/ size[2] = 0
         THEN enh' = [enh EXCEPT !.stage = "preprocessImage",
                                 !.variant = "part_009", !.promise = "pending",
                                 !.img = d, !.size = size]
         ELSE enh' = [data |-> averageThreshold(drawn),
                      prev |-> drawn,
                      stage |-> "preprocessImage",
                      n |-> 1,
                      promise |-> IF o = "blob" THEN "resolved" ELSE "rejected",
                      variant |-> "part_009",
                      img |-> d,
                      size |-> size]
  /\ UNCHANGED <<handlerVars, comp>>

\* the buffers the draw can yield in a call with outcome o: the calls that
\* end before drawImage draw nothing
Drawn(o, set) == IF o \in { "blob", "blobNull" } THEN set ELSE { << >> }

EnhNext ==
  \/ \E f \in Stages : ApplyStage(f)
  \/ \E o \in PreprocessOutcomes : PreprocessImage(o)
  \/ \E o \in PreprocessOutcomes_006, d \in ImgSizes :
        \E drawn \in Drawn(o, GrayImages) : PreprocessImage_006(o, d, drawn)
  \/ \E o \in PreprocessOutcomes_008, d \in ImgSizes :
        \E drawn \in Drawn(o, GrayImages) : PreprocessImage_008(o, d, drawn)
  \/ \E o \in PreprocessOutcomes_009, d \in ImgSizes :
        \E drawn \in Drawn(o, Images) : PreprocessImage_009(o, d, drawn)

EnhSpec == EnhInit /\ [][EnhNext]_vars

----------------------------------------------------------------------------
(* The QRScanner component: its useEffect, the deferred construction of    *)
(* the Html5QrcodeScanner and the effect's cleanup                         *)

\* how often the component is mounted
MaxMounts == 4

\* the variants of the effect: the scanner is constructed in the effect
\* itself, or in a callback handed to domReady
Variants == { "direct", "deferred" }

\* a new Html5QrcodeScanner("reader", ...)
NewScanner(c) == [c EXCEPT !.made = c.made + 1, !.live = c.live \cup { c.made + 1 }]

\* the component mounts and its effect runs. direct: the scanner is
\* constructed, setScanner(newScanner), and the cleanup closes over
\* newScanner. deferred: domReady either sets a 1000 ms timeout (readyState
\* complete or interactive) or adds a DOMContentLoaded listener, and the
\* cleanup closes over the state `scanner` of this first render, null
Mount(v, ready) ==
  /\ comp.phase = "unmounted" /\ comp.mounts < MaxMounts
  /\ comp.variant \in { "none", v }
  /\ LET c == [comp EXCEPT !.variant = v, !.phase = "mounted",
                           !.mounts = comp.mounts + 1, !.onSuccess = 0]
     IN  comp' = IF v = "direct"
                 THEN [NewScanner(c) EXCEPT !.scanner = c.made + 1,
                                            !.cleanup = c.made + 1]
                 ELSE [c EXCEPT !.scanner = 0, !.cleanup = 0,
                                !.timers = IF ready THEN 1 ELSE 0,
                                !.listeners = IF ready THEN 0 ELSE 1]
  /\ UNCHANGED <<handlerVars, enh>>

\* a callback handed to domReady runs: the timeout or the listener of the
\* mounted component, or one left behind by a component that has unmounted
\* (neither is cancelled), whose setScanner has no effect
Construct(kind) ==
  /\ kind \in { "timers", "listeners", "stale" }
  /\ comp[kind] > 0
  /\ comp' = [NewScanner(comp) EXCEPT
                ![kind] = comp[kind] - 1,
                !.scanner = IF kind = "stale" THEN comp.scanner ELSE comp.made + 1]
  /\ UNCHANGED <<handlerVars, enh>>

\* startScanning: scanner.render(handleScanSuccess, handleScanError), where
\* handleScanSuccess closes over the scanner of the current render
StartScanning ==
  /\ comp.phase = "mounted" /\ comp.scanner # 0 /\ comp.onSuccess = 0
  /\ comp.scanner \in comp.live
  /\ comp' = [comp EXCEPT !.onSuccess = comp.scanner]
  /\ UNCHANGED <<handlerVars, enh>>

\* the camera reads a code: handleScanSuccess calls scanner.clear()
CameraScanSuccess ==
  /\ comp.phase = "mounted" /\ comp.onSuccess # 0
  /\ comp' = [comp EXCEPT !.live = comp.live \ { comp.onSuccess },
                          !.onSuccess = 0]
  /\ UNCHANGED <<handlerVars, enh>>

\* the component unmounts: the cleanup clears the scanner it closed over,
\* if that is not null; pending callbacks stay scheduled
Unmount ==
  /\ comp.phase = "mounted"
  /\ comp' = [comp EXCEPT !.phase = "unmounted",
                          !.live = IF comp.cleanup # 0
                                   THEN comp.live \ { comp.cleanup }
                                   ELSE comp.live,
                          !.stale = comp.stale + comp.timers + comp.listeners,
                          !.timers = 0, !.listeners = 0,
                          !.scanner = 0, !.cleanup = 0, !.onSuccess = 0]
  /\ UNCHANGED <<handlerVars, enh>>

MountNext ==
  \/ \E v \in Variants, ready \in BOOLEAN : Mount(v, ready)
  \/ \E kind \in { "timers", "listeners", "stale" } : Construct(kind)
  \/ StartScanning
  \/ CameraScanSuccess
  \/ Unmount

MountSpec == Init /\ [][MountNext]_vars


----------------------------------------------------------------------------
(* Properties *)

\* the attempts made by recursiveSegmentScan, in call order
SearchAttempts == SelectSeq(attempts, LAMBDA a : a.via = "scanSegment")

\* the handlers that run scanFullImage and then recursiveSegmentScan
Recursive == handler \in { "PdfUpload", "UrlSubmit" }

\* recursiveSegmentScan has returned null: every region was tried and failed
Exhausted ==
  /\ Recursive /\ pc = "done"
  /\ SearchAttempts # << >>
  /\ attempts[Len(attempts)].out = "fail"

\* the number of regions of the quadrant tree of a width x height buffer
RECURSIVE TreeSize(_, _, _)
TreeSize(width, height, depth) ==
  IF width < 100 \/ height < 100 \/ depth > 3 THEN 1
  ELSE 1 + 4 * TreeSize(width \div 2, height \div 2, depth + 1)

\* C1 (as stated): a region search makes at most 1 + 4 + 16 + 64 = 85
\* attempts, and an exhausted search reports NoCodeFound
C1_AtMost85 ==
  /\ Len(SearchAttempts) <= 85
  /\ Exhausted => toasts = << "noCodeFound" >>

\* C1 (amended): a region search makes at most 1 + 4 + 16 + 64 + 256 = 341
\* attempts (a region at depth 3 is still subdivided), at most 85 when the
\* width or the height is below 800; an exhausted search has tried exactly
\* the regions of its quadrant tree and reports NoCodeFound
C1_AtMost341 ==
  /\ Len(SearchAttempts) <= 341
  /\ (canvas[1] < 800 \/ canvas[2] < 800) => Len(SearchAttempts) <= 85
  /\ Exhausted =>
       /\ toasts = << "noCodeFound" >>
       /\ Len(SearchAttempts) = TreeSize(canvas[1], canvas[2], 0)

\* C1 witness: an exhausted search of an 800 x 800 buffer after 341 attempts
C1_Witness ==
  /\ Exhausted /\ canvas = <<800, 800>>
  /\ Len(SearchAttempts) = 341
  /\ toasts = << "noCodeFound" >>

----------------------------------------------------------------------------
\* the region of an attempt
Region(a) == [x |-> a.x, y |-> a.y, width |-> a.width, height |-> a.height,
              depth |-> a.depth]

\* the regions of the quadrant tree in depth-first pre-order: the region
\* itself, then the subtrees of its top-left, top-right, bottom-left and
\* bottom-right quadrant
RECURSIVE PreOrder(_, _, _, _, _)
PreOrder(x, y, width, height, depth) ==
  << [x |-> x, y |-> y, width |-> width, height |-> height, depth |-> depth] >>
  \o ( IF width < 100 \/ height < 100 \/ depth > 3 THEN << >>
       ELSE LET hw == width \div 2
                hh == height \div 2
            IN  PreOrder(x,      y,      hw, hh, depth + 1)
             \o PreOrder(x + hw, y,      hw, hh, depth + 1)
             \o PreOrder(x,      y + hh, hw, hh, depth + 1)
             \o PreOrder(x + hw, y + hh, hw, hh, depth + 1) )

PreOrderOf == [d \in Dims |-> PreOrder(0, 0, d[1], d[2], 0)]

\* C2: the attempts of a search are a prefix of the depth-first pre-order of
\* the quadrant tree (a region before its quadrants; top-left, top-right,
\* bottom-left, bottom-right; a quadrant's subtree before its next sibling),
\* and the payload the search returns is that of the first successful
\* attempt in this order
C2_PreOrder ==
  LET s == SearchAttempts
  IN  s # << >> =>
        /\ canvas \in Dims
        /\ Len(s) <= Len(PreOrderOf[canvas])
        /\ \A k \in 1..Len(s) : Region(s[k]) = PreOrderOf[canvas][k]
        /\ LET hits == { k \in 1..Len(s) : s[k].out # "fail" }
           IN  hits # {} =>
                 LET first == CHOOSE k \in hits : \A j \in hits : k <= j
                 IN  pc = "done" /\ scanResult = s[first].out

\* C2 witness: the search succeeded on the top-right quadrant after the
\* whole subtree of the top-left quadrant had been tried
C2_Witness ==
  LET s == SearchAttempts
  IN  /\ pc = "done" /\ Len(s) > 6
      /\ s[Len(s)].depth = 1 /\ s[Len(s)].x > 0 /\ s[Len(s)].y = 0
      /\ s[Len(s) - 1].depth > 1
      /\ scanResult = "B" /\ s[Len(s)].out = "B"

\* C3: no attempt follows a successful one, the request ends with that
\* payload as its result, and a success on the depth-1 top-right quadrant
\* leaves the depth-1 bottom-left and bottom-right quadrants untried
C3_FirstSuccessStops ==
  Recursive =>
    /\ \A k \in 1..(Len(attempts) - 1) : attempts[k].out = "fail"
    /\ (attempts # << >> /\ attempts[Len(attempts)].out # "fail") =>
         LET a == attempts[Len(attempts)]
         IN  /\ pc = "done" /\ stack = << >>
             /\ scanResult = a.out
             /\ toasts = << "success" >>
             /\ (a.via = "scanSegment" /\ a.depth = 1 /\ a.x > 0 /\ a.y = 0) =>
                  \A k \in 1..Len(attempts) :
                     ~(attempts[k].depth = 1 /\ attempts[k].y > 0)

\* C3 witness: the decoder succeeded on the depth-1 top-right quadrant only
C3_Witness ==
  /\ Recursive /\ pc = "done" /\ attempts # << >>
  /\ LET a == attempts[Len(attempts)]
     IN  /\ a.via = "scanSegment" /\ a.depth = 1
         /\ a.x = canvas[1] \div 2 /\ a.y = 0
         /\ a.out = "A" /\ scanResult = "A"

\* C4: the region search terminates: recursiveSegmentScan is never left
\* suspended at a step that cannot complete
C4_SearchReturns == ~(pc = "hung" /\ stack # << >>)

\* C5: every region a search hands to a scan attempt lies inside the buffer
C5_RegionsInside ==
  \A k \in 1..Len(attempts) :
     LET a == attempts[k]
     IN  a.via \in { "scanFullImage", "scanSegment", "segmentAndScanImage" } =>
           /\ a.x >= 0 /\ a.y >= 0
           /\ a.x + a.width  <= a.den * canvas[1]
           /\ a.y + a.height <= a.den * canvas[2]

\* C5 witness: a depth-4 region that ends at the buffer's bottom-right corner
C5_Witness ==
  \E k \in 1..Len(attempts) :
     LET a == attempts[k]
     IN  /\ a.via = "scanSegment" /\ a.depth = 4
         /\ a.x + a.width = canvas[1] /\ a.y + a.height = canvas[2]

\* C6: a request that has finished has reported exactly one outcome
C6_ExactlyOneOutcome == pc = "done" => Len(toasts) = 1

\* C7: when the decoder threw an unexpected error during a region search,
\* the request is not reported as NoCodeFound
C7_FaultDistinct ==
  (Recursive /\ pc = "done" /\ "fault" \in events) => toasts # << "noCodeFound" >>

\* C8: after a failed acquisition no scan attempt is made and the request
\* does not end in success or NoCodeFound
C8_NoDecodeAfterFailedAcquisition ==
  (handler \in { "UrlSubmit", "UrlSimple" } /\ "acqFailed" \in events) =>
    /\ attempts = << >>
    /\ "decoded" \notin events
    /\ pc = "done" => (toasts # << "success" >> /\ toasts # << "noCodeFound" >>)

\* the scans of the page loop, in call order
PageAttempts == SelectSeq(attempts, LAMBDA a : a.via = "convertPDFToImage")

\* C9: pages are tried in page order, a page only after every earlier page
\* failed, the loop stops at the first page with a payload, and the request
\* then ends in success with that payload
C9_FirstPageWins ==
  handler = "PagesUpload" =>
    /\ \A k \in 1..(Len(PageAttempts) - 1) : PageAttempts[k].out = "fail"
    /\ Len(PageAttempts) <= totalPages
    /\ pc = "pages" => Len(PageAttempts) = pageNum - 1
    /\ (pc = "done" /\ "pageHit" \in events) =>
         /\ toasts = << "success" >>
         /\ scanResult = PageAttempts[Len(PageAttempts)].out

\* C10: when every page failed, the outcome is NoCodeFound and not the
\* report of a failed acquisition
C10_AllPagesFailIsNoCodeFound ==
  (handler = "PagesUpload" /\ pc = "done" /\ totalPages > 0 /\ pageNum > totalPages) =>
    /\ toasts = << "noCodeFound" >>
    /\ toasts # << "failedPdf" >>

----------------------------------------------------------------------------
\* the end-to-end scenario: a 400 x 400 buffer with the code in its
\* bottom-right 150 x 150 pixels
Pattern == [x |-> 250, y |-> 250, width |-> 150, height |-> 150]

\* the crop of attempt a shows the whole pattern
ShowsPattern(a) ==
  /\ a.x <= Pattern.x /\ Pattern.x + Pattern.width <= a.x + a.width
  /\ a.y <= Pattern.y /\ Pattern.y + Pattern.height <= a.y + a.height

\* the request ran on the scenario's buffer against the stub decoder: the
\* stub reads the payload from a crop exactly when the crop is a sub-region
\* that shows the whole pattern, and fails on the whole image
StubRun ==
  /\ Recursive /\ canvas = <<400, 400>>
  /\ \A k \in 1..Len(attempts) :
       attempts[k].out # "fail" <=>
         (ShowsPattern(attempts[k]) /\ attempts[k].depth >= 1)

\* C11 (as stated): in the scenario the whole image and the four depth-1
\* quadrants fail, the code is located at depth 2 and the outcome is the
\* payload
C11_FoundAtDepth2 ==
  (StubRun /\ pc = "done") =>
    /\ toasts = << "success" >>
    /\ attempts[Len(attempts)].depth = 2
    /\ \A k \in 1..Len(attempts) : attempts[k].depth = 1 => attempts[k].out = "fail"

\* C11 (amended): in the scenario the whole image fails, the top-left,
\* top-right and bottom-left quadrants fail with their subtrees, the
\* bottom-right depth-1 quadrant (200, 200, 200 x 200) shows the whole code
\* and the request locates it there, at depth 1, as its 66th attempt; no
\* depth-2 region shows the whole code; the outcome is the payload
C11_FoundAtDepth1 ==
  /\ (StubRun /\ pc = "done") =>
       LET a == attempts[Len(attempts)]
       IN  /\ toasts = << "success" >>
           /\ scanResult = a.out
           /\ Region(a) = [x |-> 200, y |-> 200, width |-> 200, height |-> 200,
                           depth |-> 1]
           /\ Len(attempts) = 66
  /\ (Recursive /\ canvas = <<400, 400>>) =>
       \A k \in 1..Len(attempts) :
          attempts[k].depth >= 2 => ~ShowsPattern(attempts[k])

\* C11 witness: the stub run has ended with the payload read from the
\* bottom-right depth-1 quadrant
C11_Witness ==
  /\ StubRun /\ pc = "done"
  /\ attempts[Len(attempts)].depth = 1
  /\ scanResult = "A"

----------------------------------------------------------------------------
\* the handlers that search sub-regions of the buffer
Searching == handler \in { "PdfUpload", "UrlSubmit", "SegUpload" }

\* C15: a subdivided region's second halves take the remainder pixel of an
\* odd dimension: the right quadrants end at the parent's right edge and the
\* bottom quadrants at its bottom edge, so the quadrants cover the parent
C15_QuadrantsCover ==
  \A k \in 1..(Len(stack) - 1) :
     LET f == stack[k]
         c == stack[k + 1]
     IN  /\ f.i \in { 2, 4 } => c.x + c.width = f.x + f.width
         /\ f.i \in { 3, 4 } => c.y + c.height = f.y + f.height

\* the regions whose own scanSegment attempt is logged as failed
FailedRegions ==
  { Region(attempts[j]) :
      j \in { n \in 1..Len(attempts) :
                attempts[n].via = "scanSegment" /\ attempts[n].out = "fail" } }

\* C16: a region is subdivided only after its own attempt failed and only if
\* width >= 100, height >= 100 and depth <= 3; so every sub-region attempted
\* has a parent within these bounds, and no region is decoded twice by the
\* search
C16_SubdivisionBounded ==
  Recursive =>
    LET failed == FailedRegions
        tried  == { n \in 1..Len(attempts) : attempts[n].via = "scanSegment" }
    IN  /\ \A k \in 1..Len(stack) :
              stack[k].i >= 1 =>
                /\ stack[k].width >= 100 /\ stack[k].height >= 100
                /\ stack[k].depth <= 3
                /\ Region(stack[k]) \in failed
        /\ \A j \in tried :
              attempts[j].depth >= 1 =>
                /\ attempts[j].width >= 50 /\ attempts[j].height >= 50
                /\ attempts[j].depth <= 4
        /\ Cardinality({ Region(attempts[j]) : j \in tried }) = Cardinality(tried)

\* C16 witness: a region at depth 3 of at least 100 x 100 pixels has been
\* subdivided after its own attempt failed, and one of its quadrants was tried
C16_Witness ==
  /\ Recursive
  /\ \E k \in 1..Len(stack) : stack[k].depth = 3 /\ stack[k].i >= 2
  /\ attempts[Len(attempts)].depth = 4

\* C17: the first decode attempt of every search is on the entire buffer,
\* and a payload from it ends the search
C17_WholeBufferFirst ==
  (Searching /\ attempts # << >>) =>
    LET a == attempts[1]
    IN  /\ a.x = 0 /\ a.y = 0
        /\ a.width = a.den * canvas[1] /\ a.height = a.den * canvas[2]
        /\ a.out # "fail" => Len(attempts) = 1

\* C18: once the enhancement step of an attempt has failed, the request is
\* over and has reported a fault, neither "no code found" nor a success
C18_EnhancementFailureAborts ==
  (Searching /\ "enhanceFail" \in events) =>
    /\ pc = "done"
    /\ Len(toasts) = 1
    /\ toasts[1] \notin { "noCodeFound", "success" }

\* C19: a failed attempt on a region is not reported on its own: nothing is
\* shown while the search runs, and a search that ended after a failed
\* attempt has tried every region of its tree and reports "no code found"
C19_QuadrantFailureSwallowed ==
  Searching =>
    /\ pc \in { "scanFull", "search", "segments" } => toasts = << >>
    /\ Len(toasts) <= 1
    /\ (pc = "done" /\ attempts # << >> /\ attempts[Len(attempts)].out = "fail") =>
         /\ toasts = << "noCodeFound" >>
         /\ Recursive =>
              Len(SearchAttempts) = TreeSize(canvas[1], canvas[2], 0)
         /\ handler = "SegUpload" => Len(attempts) = 4

\* C19 witness: three attempts were rejected by the decoder, nothing was
\* reported and the search goes on
C19_Witness ==
  /\ Searching /\ pc \in { "search", "segments" }
  /\ Len(attempts) >= 3
  /\ \A k \in 1..Len(attempts) : attempts[k].out = "fail"
  /\ events = { "decoded" }
  /\ toasts = << >>

----------------------------------------------------------------------------
\* C20: within one request at most one scanFile call is pending at any time:
\* an attempt settles before the next call is made
C20_OneDecodeInFlight ==
  /\ inFlight \in { 0, 1 }
  /\ inFlight = 1 => pc \in ScanPoints

\* C20 witness: the recursive search has made and settled several attempts
\* on quadrants and the call on the next quadrant is pending
C20_Witness ==
  /\ Recursive /\ pc = "search" /\ inFlight = 1
  /\ Len(stack) >= 2
  /\ Len(SearchAttempts) >= 3

----------------------------------------------------------------------------
(* the enhancer *)

\* C12: the promise returned by preprocessImage is settled, resolved with
\* the processed file or rejected, whatever the browser calls yield
C12_EnhancerSettles ==
  enh.stage = "preprocessImage" => enh.promise \in { "resolved", "rejected" }

\* every pixel of the buffer is pure black or pure white
Binary(data) ==
  \A k \in 1..Len(data) : data[k] \in { <<0, 0, 0>>, <<255, 255, 255>> }

\* C13: a threshold stage applied to its own output returns that output,
\* and applied to a pure black / white buffer returns the buffer unchanged
C13_ThresholdIdempotent ==
  enh.stage \in ThresholdStages =>
    /\ Stage(enh.stage, enh.data) = enh.data
    /\ Binary(enh.prev) => enh.data = enh.prev

\* the number v as a byte of a clamped array: 0 below 0, 255 above 255
Clamped(v) == IF v < 0 THEN 0 ELSE IF v > 255 THEN 255 ELSE v

\* C14: every byte a stage has written lies in 0..255, and a value outside
\* this range is stored as the nearer limit: the sharpened byte is the
\* clamped sum 5 c - n - w - e - s, an edge magnitude above 255 is stored
\* as 255, and a threshold stage writes only 0 and 255
C14_BytesClamped ==
  (enh.stage \in Stages) =>
    /\ \A k \in 1..Len(enh.data) : \A c \in 1..3 : enh.data[k][c] \in 0..255
    /\ \A k \in 1..Len(enh.data) :
          Interior(k) =>
            LET at(kx, ky, c) == enh.prev[Px(PxX(k) + kx, PxY(k) + ky)][c]
                gx == at(1, -1, 1) + 2 * at(1, 0, 1) + at(1, 1, 1)
                      - at(-1, -1, 1) - 2 * at(-1, 0, 1) - at(-1, 1, 1)
                gy == at(-1, 1, 1) + 2 * at(0, 1, 1) + at(1, 1, 1)
                      - at(-1, -1, 1) - 2 * at(0, -1, 1) - at(1, -1, 1)
            IN  /\ enh.stage = "applyConvolution" =>
                     \A c \in 1..3 :
                        enh.data[k][c] =
                          Clamped(5 * at(0, 0, c) - at(0, -1, c) - at(-1, 0, c)
                                  - at(1, 0, c) - at(0, 1, c))
                /\ (enh.stage = "applyEdgeDetection"
                    /\ gx * gx + gy * gy > 255 * 255) =>
                     enh.data[k] = <<255, 255, 255>>
    /\ enh.stage \in ThresholdStages =>
          \A k \in 1..Len(enh.data) :
             enh.data[k] \in { <<0, 0, 0>>, <<255, 255, 255>> }

\* C14 witness: the sharpen kernel has produced a sum above 255 and a sum
\* below 0 on an interior pixel, stored as 255 and as 0
C14_Witness ==
  /\ enh.stage = "applyConvolution"
  /\ \E k \in 1..Len(enh.data) :
        /\ Interior(k)
        /\ 5 * enh.prev[k][1] - enh.prev[k - 1][1] - enh.prev[k + 1][1]
             - enh.prev[k - ImgW][1] - enh.prev[k + ImgW][1] > 255
        /\ 5 * enh.prev[k][2] - enh.prev[k - 1][2] - enh.prev[k + 1][2]
             - enh.prev[k - ImgW][2] - enh.prev[k + ImgW][2] < 0
        /\ enh.data[k][1] = 255 /\ enh.data[k][2] = 0

----------------------------------------------------------------------------
(* the request as a whole *)

\* C21: no region is submitted to the decoder twice within a request: the
\* attempts of a search are on pairwise different rectangles, the whole
\* image among them once
C21_NoRegionTwice ==
  Searching =>
    Cardinality({ <<attempts[k].x, attempts[k].y, attempts[k].width,
                    attempts[k].height>> : k \in 1..Len(attempts) })
      = Len(attempts)

\* C26: when the handler has returned, isProcessing is false again
C26_ProcessingCleared ==
  pc = "done" => ~isProcessing

\* C27: a request that has started and not yet finished can take its next
\* step: it never waits on a promise that cannot settle
C27_RequestProceeds ==
  pc \notin { "idle", "done" } => ENABLED Next

\* C28: when the handler has returned, clear() was called on every
\* Html5Qrcode handle it constructed
C28_HandlesCleared ==
  pc = "done" => cleared >= created

----------------------------------------------------------------------------
\* C30: while the component is unmounted no Html5QrcodeScanner instance it
\* created is left uncleared, whenever the deferred callback ran
C30_ScannersCleared ==
  comp.phase = "unmounted" => comp.live = {}

\* preprocessImage has run its rescale step
Rescaled ==
  /\ enh.stage = "preprocessImage"
  /\ enh.variant \in { "part_006", "part_008", "part_009" }
  /\ enh.img # <<0, 0>>

\* C22: the rescale step only shrinks: when the larger dimension exceeds
\* the maximum it becomes the maximum and the other is scaled by the same
\* ratio (to the nearest integer); otherwise both dimensions are unchanged;
\* no dimension is increased
C22_RescaleOnlyShrinks ==
  Rescaled =>
    LET w == enh.img[1]
        h == enh.img[2]
        max == MaxDimensionOf(enh.variant)
        larger == Max(w, h)
        nw == enh.size[1]
        nh == enh.size[2]
        Near(a, b) == 2 * a - 2 * b <= larger /\ 2 * b - 2 * a <= larger
    IN  /\ nw <= w /\ nh <= h
        /\ larger <= max => nw = w /\ nh = h
        /\ larger > max =>
             /\ Max(nw, nh) = max
             /\ Near(nw * larger, w * max)
             /\ Near(nh * larger, h * max)

\* C23: the dimensions the rescale step computes for an image of positive
\* width and height are both positive
C23_DimensionsPositive ==
  Rescaled /\ enh.img[1] > 0 /\ enh.img[2] > 0 =>
    enh.size[1] > 0 /\ enh.size[2] > 0

\* the buffer thresholded at T on the weighted luminance
\* 0.299 R + 0.587 G + 0.114 B
LuminanceThreshold(data, T) ==
  [k \in 1..Len(data) |->
     Gray(IF Luminance(data[k]) > T * 1000 THEN 255 ELSE 0)]

\* the threshold loop of part_009 has run on the buffer enh.prev
AverageThresholded ==
  \/ enh.stage = "averageThreshold"
  \/ enh.stage = "preprocessImage" /\ enh.variant = "part_009" /\ enh.n = 1

\* C24: a stage that reduces a pixel to one value reduces it to the
\* weighted luminance 0.299 R + 0.587 G + 0.114 B: the gray conversions
\* store that luminance in R, G and B, and the thresholds compare it
C24_WeightedLuminance ==
  /\ enh.stage = "denoiseImage" =>
       \A k \in 1..Len(enh.data) :
          enh.data[k] = Gray(ToUint8Clamp(Luminance(enh.prev[k]), 1000))
  /\ enh.stage = "adaptiveThreshold" =>
       enh.data = LuminanceThreshold(enh.prev, 160)
  /\ AverageThresholded => enh.data = LuminanceThreshold(enh.prev, 128)
  /\ enh.stage = "applyAdaptiveThreshold" =>
       enh.data = ThresholdFrom(1, denoiseImage(enh.prev))

\* the sum of the gray values of the pixels S of a buffer
RECURSIVE GraySum(_, _)
GraySum(S, pixels) ==
  IF S = {} THEN 0
  ELSE LET n == CHOOSE m \in S : TRUE
       IN  pixels[n][1] + GraySum(S \ { n }, pixels)

\* the pixels of the blockSize x blockSize neighbourhood of pixel k,
\* clipped at the border
Neighbourhood(k, blockSize) ==
  { n \in 1..(ImgW * ImgH) :
      /\ PxX(n) - PxX(k) \in (-(blockSize \div 2))..(blockSize \div 2)
      /\ PxY(n) - PxY(k) \in (-(blockSize \div 2))..(blockSize \div 2) }

\* every pixel of the buffer has R = G = B
IsGray(data) == \A k \in 1..Len(data) : data[k] = Gray(data[k][1])

\* C25: applyAdaptiveThreshold (blockSize 11, C 2) sets a pixel to 255 when
\* its input luminance exceeds the mean input luminance of its
\* neighbourhood minus C and to 0 otherwise, every mean being taken over the
\* input buffer; no neighbourhood is empty
C25_MeansFromInput ==
  enh.stage = "applyAdaptiveThreshold" /\ IsGray(enh.prev) =>
    \A k \in 1..Len(enh.data) :
       LET near == Neighbourhood(k, 11)
           count == Cardinality(near)
       IN  /\ count > 0
           /\ enh.data[k] =
                Gray(IF enh.prev[k][1] * count > GraySum(near, enh.prev) - 2 * count
                     THEN 255 ELSE 0)

\* the fixed threshold of a stage: 160 in adaptiveThreshold of
\* imageProcessing.ts, the constant 5 in adaptiveThresholding of part_001
FixedThreshold(f) == IF f = "adaptiveThreshold" THEN 160 ELSE 5

\* C29: the fixed-threshold stages are monotone in luminance, a pixel at
\* least as bright as another is written at least as bright, and they
\* write 255 exactly when the luminance exceeds the threshold
C29_BinarisationMonotone ==
  enh.stage \in { "adaptiveThreshold", "adaptiveThresholding" } =>
    /\ \A p, q \in 1..Len(enh.data) :
          Luminance(enh.prev[p]) >= Luminance(enh.prev[q]) =>
            enh.data[p][1] >= enh.data[q][1]
    /\ enh.data = LuminanceThreshold(enh.prev, FixedThreshold(enh.stage))

====
